---- MODULE Spec2Model ----
(***************************************************************************)
(* Model of the procedural tube-mesh generator of helix.py:                *)
(* generate_small_cylinder (the rung builder) and generate_dna (two        *)
(* strands, the rungs between them, and the merge into one mesh).          *)
(*                                                                         *)
(* Geometry is symbolic.  A centerline sample is [phase, i] (phase in      *)
(* units of pi, i the step); a vertex is the centre it was placed at, the  *)
(* frame and the side (angle) of its offset and the offset radius; a       *)
(* normal is the frame and side of its direction.  Lengths are integers in *)
(* units of 1e-9, so the 1e-8 threshold of the code is 10.  Every vertex   *)
(* and normal carries "finite": FALSE when float32 arithmetic yields       *)
(* NaN/Inf components for it.  A numpy array is [ndim, rows].              *)
(***************************************************************************)
EXTENDS Integers, Sequences, FiniteSets, TLC

VARIABLES
    num_segments, helix_radius, strand_thickness, ring_sides, num_turns,
    vertical_spacing, rung_gap, rung_radius,
    pc, outcome, total_segments,
    strand1_vs, strand1_ns, strand1_idx, centers1,
    strand2_vs, strand2_ns, strand2_idx, centers2,
    offset_strand2, current_vertex_offset,
    rung_vs_total, rung_ns_total, rung_idx_total,
    rung_pos, p1, p2, rung_vs, rung_ns, rung_idx,
    combined_vertices, combined_normals, combined_indices

args == <<num_segments, helix_radius, strand_thickness, ring_sides, num_turns,
          vertical_spacing, rung_gap, rung_radius>>
strand1 == <<strand1_vs, strand1_ns, strand1_idx, centers1>>
strand2 == <<strand2_vs, strand2_ns, strand2_idx, centers2>>
rungTotals == <<rung_vs_total, rung_ns_total, rung_idx_total>>
rungLocals == <<p1, p2, rung_vs, rung_ns, rung_idx>>
combined == <<combined_vertices, combined_normals, combined_indices>>
vars == <<args, pc, outcome, total_segments, strand1, strand2, offset_strand2,
          current_vertex_offset, rungTotals, rung_pos, rungLocals, combined>>

(* ---- bounds of the explored inputs ---- *)
MaxSegments == 2
MaxTurns == 2
MaxRingSides == 4
MaxRungGap == 3

(* input values, unit 1e-9; the defaults 0.5 / 0.1 / 0.03 / 0.02 keep their
   proportions, and 2 is a positive helix radius below half the epsilon *)
HelixRadii == {2, 200}
VerticalSpacings == {0, 40}
StrandThicknesses == {0, 12}
RungRadii == {8}

(* length < 1e-8 of generate_small_cylinder *)
Eps == 10
(* sides=8 passed by generate_dna to generate_small_cylinder *)
RungSides == 8

None == [ndim |-> 0, rows |-> <<>>]

(* ---- numpy helpers ---- *)

(* np.array(list_of_3_vectors): shape (n,3), but shape (0,) for an empty list *)
NpVecArray(list) == [ndim |-> IF list = <<>> THEN 1 ELSE 2, rows |-> list]

(* np.array(list_of_ints, dtype=uint32): always one-dimensional *)
NpIntArray(list) == [ndim |-> 1, rows |-> list]

(* arr + k on an index array *)
Shift(arr, k) == [ndim |-> arr.ndim, rows |-> [n \in 1..Len(arr.rows) |-> arr.rows[n] + k]]

(* arr.shape[0] *)
Shape0(arr) == Len(arr.rows)

RECURSIVE ConcatRows(_)
ConcatRows(arrs) ==
    IF arrs = <<>> THEN <<>> ELSE Head(arrs).rows \o ConcatRows(Tail(arrs))

(* np.concatenate(arrs, axis=0) raises ValueError unless all inputs have the
   same number of dimensions *)
ConcatOk(arrs) == \A a, b \in 1..Len(arrs) : arrs[a].ndim = arrs[b].ndim

Concatenate(arrs) == [ndim |-> arrs[1].ndim, rows |-> ConcatRows(arrs)]

(* ---- lengths ---- *)

(* 4000 * sin^2(pi/n): squared chord between consecutive samples of one
   strand, per mille of helix_radius^2, for dtheta = 2*pi/n *)
ChordTable == <<0, 4000, 3000, 2000, 1382, 1000, 753, 586>>

ChordSq == (helix_radius * helix_radius * ChordTable[num_segments]) \div 1000

(* squared length of b - a for two centerline samples: the same step on the
   two strands (diametrically opposed), or two steps of one strand *)
Dist2(a, b) ==
    IF a.phase # b.phase
    THEN 4 * helix_radius * helix_radius
    ELSE IF a.i = b.i THEN 0
    ELSE ChordSq + vertical_spacing * vertical_spacing

(* np.linalg.norm(v) < 1e-8 *)
BelowEps(a, b) == Dist2(a, b) < Eps * Eps

(* normalize(b - a), line 34, has no guard: "ok" a unit vector; "tiny" a unit
   vector obtained from a length below 1e-8; "noise" a unit vector made of
   the rounding residue of coincident samples (r*sin(2*pi) ~ 2.4e-16*r);
   "nan" when that residue squares to 0 in float32 (r < 1.08e-7), so the
   division is by 0 *)
normalize(a, b) ==
    IF Dist2(a, b) = 0
    THEN (IF helix_radius < 108 THEN "nan" ELSE "noise")
    ELSE IF BelowEps(a, b) THEN "tiny" ELSE "ok"

(* up = [0,1,0] unless abs(dot(T, up)) > 0.99, then [1,0,0]; a NaN compares
   False.  dot(T, up) is the vertical share of the tangent *)
UpFor(a, b) ==
    IF normalize(a, b) = "nan" THEN "Y"
    ELSE IF a.phase = b.phase
            /\ 199 * vertical_spacing * vertical_spacing > 9801 * ChordSq
         THEN "X" ELSE "Y"

(* the frame (T, N, B) built on the direction a -> b *)
Frame(a, b) == [from |-> a, to |-> b, T |-> normalize(a, b), up |-> UpFor(a, b)]

FrameFinite(f) == f.T # "nan"

(* centre + radius * (cos(angle)*N + sin(angle)*B) *)
Vertex(c, f, j, radius) ==
    [center |-> c, frame |-> f, side |-> j, radius |-> radius,
     finite |-> FrameFinite(f)]

(* normalize(cos(angle)*N + sin(angle)*B) *)
UnitNormal(f, j) == [frame |-> f, side |-> j, finite |-> FrameFinite(f)]

(* normalize(radius * (cos(angle)*N + sin(angle)*B)): 0/0 for radius 0 *)
OffsetNormal(f, j, radius) ==
    [frame |-> f, side |-> j, finite |-> FrameFinite(f) /\ radius # 0]

(* ---- generate_small_cylinder ---- *)

(* CylinderQuad with the next side confused with the side itself *)
CylinderQuadSameSide(i, sides) ==
    LET ring0_start_index == 0
        ring1_start_index == sides
        i_next == i
        v0  == ring0_start_index + 2 * i
        v0n == ring0_start_index + 2 * i_next
        v1  == ring1_start_index + 2 * i
        v1n == ring1_start_index + 2 * i_next
    IN <<v0, v0n, v1, v0n, v1n, v1>>

(* the two triangles of side i *)
CylinderQuad(i, sides) ==
    LET ring0_start_index == 0
        ring1_start_index == sides
        i_next == (i + 1) % sides
        v0  == ring0_start_index + 2 * i
        v0n == ring0_start_index + 2 * i_next
        v1  == ring1_start_index + 2 * i
        v1n == ring1_start_index + 2 * i_next
    IN <<v0, v0n, v1, v0n, v1n, v1>>

(* vertices.append(v0); vertices.append(v1) for each side *)
CylinderVertices(a, b, radius, sides) ==
    LET f == Frame(a, b)
    IN [n \in 1..(2 * sides) |->
          IF n % 2 = 1 THEN Vertex(a, f, (n - 1) \div 2, radius)
                       ELSE Vertex(b, f, (n - 1) \div 2, radius)]

CylinderNormals(a, b, sides) ==
    LET f == Frame(a, b)
    IN [n \in 1..(2 * sides) |-> UnitNormal(f, (n - 1) \div 2)]

CylinderIndices(sides) ==
    [n \in 1..(6 * sides) |-> CylinderQuad((n - 1) \div 6, sides)[((n - 1) % 6) + 1]]

generate_small_cylinder(a, b, radius, sides) ==
    IF BelowEps(a, b)
    THEN [vs |-> NpVecArray(<<>>), ns |-> NpVecArray(<<>>), idx |-> NpIntArray(<<>>)]
    ELSE [vs  |-> NpVecArray(CylinderVertices(a, b, radius, sides)),
          ns  |-> NpVecArray(CylinderNormals(a, b, sides)),
          idx |-> NpIntArray(CylinderIndices(sides))]

(* ---- build_strand ---- *)

CenterPositions(phase_offset, N) ==
    [n \in 1..(N + 1) |-> [phase |-> phase_offset, i |-> n - 1]]

(* tangent by difference to the next centre, or from the previous at the end *)
StrandFrame(centers, i, N) ==
    IF i < N THEN Frame(centers[i + 1], centers[i + 2])
             ELSE Frame(centers[i], centers[i + 1])

StrandVertices(centers, N, sides, thickness) ==
    [n \in 1..((N + 1) * sides) |->
        LET i == (n - 1) \div sides
            j == (n - 1) % sides
        IN Vertex(centers[i + 1], StrandFrame(centers, i, N), j, thickness)]

StrandNormals(centers, N, sides, thickness) ==
    [n \in 1..((N + 1) * sides) |->
        LET i == (n - 1) \div sides
            j == (n - 1) % sides
        IN OffsetNormal(StrandFrame(centers, i, N), j, thickness)]

(* the two triangles between ring i and ring i+1 at side j *)
StrandQuad(i, j, sides) ==
    LET ring_start == i * sides
        next_ring  == (i + 1) * sides
        j_next == (j + 1) % sides
        c_j  == ring_start + j
        c_j1 == ring_start + j_next
        n_j  == next_ring + j
        n_j1 == next_ring + j_next
    IN <<c_j, c_j1, n_j, c_j1, n_j1, n_j>>

(* StrandIndices stitching a quad after every ring, the last one included *)
StrandIndicesEveryRing(N, sides) ==
    [n \in 1..((N + 1) * sides * 6) |->
        LET q == (n - 1) \div 6
        IN StrandQuad(q \div sides, q % sides, sides)[((n - 1) % 6) + 1]]

StrandIndices(N, sides) ==
    [n \in 1..(N * sides * 6) |->
        LET q == (n - 1) \div 6
        IN StrandQuad(q \div sides, q % sides, sides)[((n - 1) % 6) + 1]]

build_strand(phase_offset) ==
    LET centers == CenterPositions(phase_offset, total_segments)
    IN [vs  |-> NpVecArray(StrandVertices(centers, total_segments, ring_sides, strand_thickness)),
        ns  |-> NpVecArray(StrandNormals(centers, total_segments, ring_sides, strand_thickness)),
        idx |-> NpIntArray(StrandIndices(total_segments, ring_sides)),
        centers |-> centers]

(* ---- generate_dna ---- *)

(* RungRange as range(0, total_segments, rung_gap): the last sample left out *)
RungRangeStopAtN(N, gap) == [n \in 1..((N + gap - 1) \div gap) |-> (n - 1) * gap]

(* RungRange as range(rung_gap, total_segments + 1, rung_gap): sample 0 left out *)
RungRangeFromGap(N, gap) == [n \in 1..(N \div gap) |-> n * gap]

(* list(range(0, total_segments + 1, rung_gap)), rung_gap > 0 *)
RungRange(N, gap) == [n \in 1..((N + gap) \div gap) |-> (n - 1) * gap]

Init ==
    /\ num_segments \in 0..MaxSegments
    /\ num_turns \in 1..MaxTurns
    /\ ring_sides \in 2..MaxRingSides
    /\ rung_gap \in 0..MaxRungGap
    /\ helix_radius \in HelixRadii
    /\ vertical_spacing \in VerticalSpacings
    /\ strand_thickness \in StrandThicknesses
    /\ rung_radius \in RungRadii
    /\ pc = "entry"
    /\ outcome = "running"
    /\ total_segments = 0
    /\ strand1_vs = None /\ strand1_ns = None /\ strand1_idx = None /\ centers1 = <<>>
    /\ strand2_vs = None /\ strand2_ns = None /\ strand2_idx = None /\ centers2 = <<>>
    /\ offset_strand2 = 0
    /\ current_vertex_offset = 0
    /\ rung_vs_total = <<>> /\ rung_ns_total = <<>> /\ rung_idx_total = <<>>
    /\ rung_pos = 0
    /\ p1 = [phase |-> 0, i |-> 0] /\ p2 = [phase |-> 0, i |-> 0]
    /\ rung_vs = None /\ rung_ns = None /\ rung_idx = None
    /\ combined_vertices = None /\ combined_normals = None /\ combined_indices = None

(* total_segments = num_segments * num_turns; dtheta = 2*pi*num_turns / total_segments *)
ComputeTotals ==
    /\ pc = "entry"
    /\ total_segments' = num_segments * num_turns
    /\ IF total_segments' = 0
       THEN pc' = "failed" /\ outcome' = "ZeroDivisionError"
       ELSE pc' = "strand1" /\ outcome' = outcome
    /\ UNCHANGED <<args, strand1, strand2, offset_strand2, current_vertex_offset,
                   rungTotals, rung_pos, rungLocals, combined>>

BuildStrand1 ==
    /\ pc = "strand1"
    /\ LET s == build_strand(0)
       IN /\ strand1_vs' = s.vs
          /\ strand1_ns' = s.ns
          /\ strand1_idx' = s.idx
          /\ centers1' = s.centers
    /\ pc' = "strand2"
    /\ UNCHANGED <<args, outcome, total_segments, strand2, offset_strand2,
                   current_vertex_offset, rungTotals, rung_pos, rungLocals, combined>>

BuildStrand2 ==
    /\ pc = "strand2"
    /\ LET s == build_strand(1)
       IN /\ strand2_vs' = s.vs
          /\ strand2_ns' = s.ns
          /\ strand2_idx' = s.idx
          /\ centers2' = s.centers
    /\ pc' = "offset"
    /\ UNCHANGED <<args, outcome, total_segments, strand1, offset_strand2,
                   current_vertex_offset, rungTotals, rung_pos, rungLocals, combined>>

(* lines 192-200: shift strand 2, start the rung lists and the running
   offset, evaluate range(0, total_segments + 1, rung_gap) *)
OffsetStrand2 ==
    /\ pc = "offset"
    /\ offset_strand2' = Shape0(strand1_vs)
    /\ strand2_idx' = Shift(strand2_idx, offset_strand2')
    /\ rung_vs_total' = <<>> /\ rung_ns_total' = <<>> /\ rung_idx_total' = <<>>
    /\ current_vertex_offset' = offset_strand2' + Shape0(strand2_vs)
    /\ rung_pos' = 0
    /\ IF rung_gap = 0
       THEN pc' = "failed" /\ outcome' = "ValueError"
       ELSE pc' = "loop" /\ outcome' = outcome
    /\ UNCHANGED <<args, total_segments, strand1, strand2_vs, strand2_ns, centers2,
                   rungLocals, combined>>

(* lines 200-203: next i of the range, the rung between the two strands *)
RungGenerate ==
    /\ pc = "loop"
    /\ rung_pos < Len(RungRange(total_segments, rung_gap))
    /\ LET i == RungRange(total_segments, rung_gap)[rung_pos + 1]
           cyl == generate_small_cylinder(centers1[i + 1], centers2[i + 1],
                                          rung_radius, RungSides)
       IN /\ p1' = centers1[i + 1]
          /\ p2' = centers2[i + 1]
          /\ rung_vs' = cyl.vs
          /\ rung_ns' = cyl.ns
          /\ rung_idx' = cyl.idx
    /\ rung_pos' = rung_pos + 1
    /\ pc' = "shift"
    /\ UNCHANGED <<args, outcome, total_segments, strand1, strand2, offset_strand2,
                   current_vertex_offset, rungTotals, combined>>

(* lines 205-211 *)
RungAppend ==
    /\ pc = "shift"
    /\ rung_idx' = Shift(rung_idx, current_vertex_offset)
    /\ rung_vs_total' = Append(rung_vs_total, rung_vs)
    /\ rung_ns_total' = Append(rung_ns_total, rung_ns)
    /\ rung_idx_total' = Append(rung_idx_total, rung_idx')
    /\ current_vertex_offset' = current_vertex_offset + Shape0(rung_vs)
    /\ pc' = "loop"
    /\ UNCHANGED <<args, outcome, total_segments, strand1, strand2, offset_strand2,
                   rung_pos, p1, p2, rung_vs, rung_ns, combined>>

(* lines 213-221, once the range is exhausted *)
ConcatRungs ==
    /\ pc = "loop"
    /\ rung_pos >= Len(RungRange(total_segments, rung_gap))
    /\ IF Len(rung_vs_total) > 0
       THEN IF ConcatOk(rung_vs_total) /\ ConcatOk(rung_ns_total) /\ ConcatOk(rung_idx_total)
            THEN /\ rung_vs_total' = Concatenate(rung_vs_total)
                 /\ rung_ns_total' = Concatenate(rung_ns_total)
                 /\ rung_idx_total' = Concatenate(rung_idx_total)
                 /\ pc' = "combine" /\ outcome' = outcome
            ELSE /\ UNCHANGED rungTotals
                 /\ pc' = "failed" /\ outcome' = "ValueError"
       ELSE /\ rung_vs_total' = NpVecArray(<<>>)
            /\ rung_ns_total' = NpVecArray(<<>>)
            /\ rung_idx_total' = NpIntArray(<<>>)
            /\ pc' = "combine" /\ outcome' = outcome
    /\ UNCHANGED <<args, total_segments, strand1, strand2, offset_strand2,
                   current_vertex_offset, rung_pos, rungLocals, combined>>

(* lines 224-228 *)
Combine ==
    /\ pc = "combine"
    /\ LET vsParts == <<strand1_vs, strand2_vs, rung_vs_total>>
           nsParts == <<strand1_ns, strand2_ns, rung_ns_total>>
           idxParts == <<strand1_idx, strand2_idx, rung_idx_total>>
       IN IF ~ConcatOk(vsParts)
          THEN /\ UNCHANGED combined
               /\ pc' = "failed" /\ outcome' = "ValueError"
          ELSE IF ~ConcatOk(nsParts)
          THEN /\ combined_vertices' = Concatenate(vsParts)
               /\ UNCHANGED <<combined_normals, combined_indices>>
               /\ pc' = "failed" /\ outcome' = "ValueError"
          ELSE /\ combined_vertices' = Concatenate(vsParts)
               /\ combined_normals' = Concatenate(nsParts)
               /\ combined_indices' = Concatenate(idxParts)
               /\ pc' = "done" /\ outcome' = "returned"
    /\ UNCHANGED <<args, total_segments, strand1, strand2, offset_strand2,
                   current_vertex_offset, rungTotals, rung_pos, rungLocals>>

Next ==
    \/ ComputeTotals
    \/ BuildStrand1
    \/ BuildStrand2
    \/ OffsetStrand2
    \/ RungGenerate
    \/ RungAppend
    \/ ConcatRungs
    \/ Combine

Spec == Init /\ [][Next]_vars

TypeOK ==
    /\ pc \in {"entry", "strand1", "strand2", "offset", "loop", "shift",
               "combine", "done", "failed"}
    /\ outcome \in {"running", "returned", "ZeroDivisionError", "ValueError"}

(* ---- the documented input ranges ---- *)

ValidParams ==
    /\ num_segments >= 1 /\ num_turns >= 1 /\ ring_sides >= 3 /\ rung_gap >= 1
    /\ helix_radius > 0 /\ strand_thickness > 0 /\ rung_radius > 0

(* N of the claims *)
NSeg == num_segments * num_turns

(* ceil((N+1)/rung_gap): the least k with k * rung_gap >= N + 1 *)
CeilRungs == CHOOSE k \in 0..(NSeg + 1) :
                 k * rung_gap >= NSeg + 1 /\ (k - 1) * rung_gap < NSeg + 1

(* the endpoints of every rung are 2 * helix_radius apart *)
RungsDegenerate == 2 * helix_radius < Eps

InRange(rows, lo, hi) == \A n \in 1..Len(rows) : lo <= rows[n] /\ rows[n] < hi

(* C1: for valid parameters every value of combined_indices is below the
   number of rows of combined_vertices, and the number of indices is a
   multiple of 3 *)
C1_IndicesBelowVertexCount ==
    (pc = "done" /\ ValidParams) =>
        /\ InRange(combined_indices.rows, 0, Shape0(combined_vertices))
        /\ Len(combined_indices.rows) % 3 = 0

(* C2 as stated: with rung_gap > N no rung is generated and the combined
   arrays are exactly the two strands, strand 2 shifted by strand 1's size *)
C2_NoRungsWhenGapExceedsN ==
    (ValidParams /\ rung_gap > NSeg) =>
        /\ pc \in {"combine", "done"} => rung_pos = 0
        /\ pc = "done" =>
              /\ combined_vertices.rows = strand1_vs.rows \o strand2_vs.rows
              /\ combined_normals.rows = strand1_ns.rows \o strand2_ns.rows
              /\ combined_indices.rows = strand1_idx.rows \o strand2_idx.rows

(* C2 amended: with rung_gap > N exactly one rung is generated, between the
   two strands at sample 0; a returned mesh is strand 1, strand 2 (indices
   shifted by strand 1's vertex count) and that rung (indices shifted by the
   two strands' vertex count), nothing else *)
C2_OneRungWhenGapExceedsN ==
    (ValidParams /\ rung_gap > NSeg) =>
        /\ pc \in {"combine", "done"} =>
              /\ rung_pos = 1
              /\ p1 = [phase |-> 0, i |-> 0]
              /\ p2 = [phase |-> 1, i |-> 0]
        /\ pc = "done" =>
              /\ combined_vertices.rows = strand1_vs.rows \o strand2_vs.rows \o rung_vs.rows
              /\ combined_normals.rows = strand1_ns.rows \o strand2_ns.rows \o rung_ns.rows
              /\ combined_indices.rows = strand1_idx.rows \o strand2_idx.rows \o rung_idx.rows
              /\ \A n \in 1..Len(strand1_idx.rows) :
                    strand2_idx.rows[n] = strand1_idx.rows[n] + Shape0(strand1_vs)
              /\ Shape0(rung_vs) = 2 * RungSides
              /\ rung_idx.rows[1] = Shape0(strand1_vs) + Shape0(strand2_vs)

C2_Witness ==
    /\ pc = "done" /\ ValidParams /\ rung_gap > NSeg
    /\ Shape0(combined_vertices) > Shape0(strand1_vs) + Shape0(strand2_vs)

(* C3: a parameter outside its documented range is rejected before any
   geometry is generated: no vertex, normal or index array is built, not
   even a partial one, and the call does not return a mesh *)
C3_InvalidRejectedBeforeGeneration ==
    ~ValidParams =>
        /\ strand1_vs = None /\ strand1_ns = None /\ strand1_idx = None
        /\ strand2_vs = None
        /\ combined_vertices = None /\ combined_normals = None
        /\ combined_indices = None
        /\ outcome # "returned"

(* C4: every sub-mesh addresses only its own vertices: strand indices are
   below (N+1)*ring_sides and rung indices below 2*sides before merging;
   after merging the indices of sub-mesh k lie in
   [offset_k, offset_k + vertexcount_k) *)
C4_SubMeshesSelfContained ==
    ValidParams =>
        /\ pc = "strand2" => InRange(strand1_idx.rows, 0, (NSeg + 1) * ring_sides)
        /\ pc = "offset" => InRange(strand2_idx.rows, 0, (NSeg + 1) * ring_sides)
        /\ (pc = "shift" /\ ~BelowEps(p1, p2)) =>
              InRange(rung_idx.rows, 0, 2 * RungSides)
        /\ pc = "done" =>
              LET V == (NSeg + 1) * ring_sides
                  I == NSeg * ring_sides * 6
              IN /\ InRange(SubSeq(combined_indices.rows, 1, I), 0, V)
                 /\ InRange(SubSeq(combined_indices.rows, I + 1, 2 * I), V, 2 * V)
                 /\ \A k \in 0..(CeilRungs - 1) :
                       InRange(SubSeq(combined_indices.rows,
                                      2 * I + 6 * RungSides * k + 1,
                                      2 * I + 6 * RungSides * (k + 1)),
                               2 * V + 2 * RungSides * k,
                               2 * V + 2 * RungSides * (k + 1))

StrandsBuilt == pc \in {"offset", "loop", "shift", "combine", "done"}

(* C5: a strand of N ring-pairs and S >= 3 sides has (N+1)*S vertices,
   (N+1)*S normals, N*S*6 indices and N+1 centerline samples *)
C5_StrandCounts ==
    (StrandsBuilt /\ ring_sides >= 3) =>
        /\ Shape0(strand1_vs) = (NSeg + 1) * ring_sides
        /\ Shape0(strand1_ns) = (NSeg + 1) * ring_sides
        /\ Len(strand1_idx.rows) = NSeg * ring_sides * 6
        /\ Len(centers1) = NSeg + 1
        /\ Shape0(strand2_vs) = (NSeg + 1) * ring_sides
        /\ Shape0(strand2_ns) = (NSeg + 1) * ring_sides
        /\ Len(strand2_idx.rows) = NSeg * ring_sides * 6
        /\ Len(centers2) = NSeg + 1

C5_Witness ==
    /\ pc = "offset" /\ ring_sides = 4 /\ NSeg = 4
    /\ Shape0(strand1_vs) = 20 /\ Len(strand2_idx.rows) = 96

(* C6: no ring is built on a tangent normalized from a difference shorter
   than the epsilon, and for valid inputs no vertex or normal of a strand
   has a NaN/Inf component *)
C6_NoNearZeroTangentNormalized ==
    (ValidParams /\ StrandsBuilt) =>
        /\ \A n \in 1..Shape0(strand1_vs) :
              /\ strand1_vs.rows[n].frame.T = "ok"
              /\ strand1_vs.rows[n].finite /\ strand1_ns.rows[n].finite
        /\ \A n \in 1..Shape0(strand2_vs) :
              /\ strand2_vs.rows[n].frame.T = "ok"
              /\ strand2_vs.rows[n].finite /\ strand2_ns.rows[n].finite

(* C7: endpoints closer than the epsilon give an empty rung, the running
   offset counts only the vertices emitted, and generate_dna still returns
   the combined mesh *)
C7_DegenerateRungAbsorbed ==
    ValidParams =>
        /\ (pc = "shift" /\ BelowEps(p1, p2)) =>
              Shape0(rung_vs) = 0 /\ Shape0(rung_ns) = 0 /\ Shape0(rung_idx) = 0
        /\ pc = "loop" =>
              current_vertex_offset =
                  Shape0(strand1_vs) + Shape0(strand2_vs) + Len(ConcatRows(rung_vs_total))
        /\ pc \in {"done", "failed"} => outcome = "returned"

(* C8: one rung per sample 0, rung_gap, 2*rung_gap, ... <= N, between the two
   strands at that step, ceil((N+1)/rung_gap) in all; a non-degenerate rung
   has 16 vertices, 16 normals and 48 indices; the merged mesh has
   2*N*ring_sides*2 + 16 per rung triangles *)
C8_RungCountAndSizes ==
    ValidParams =>
        /\ pc = "shift" =>
              /\ p1 = [phase |-> 0, i |-> (rung_pos - 1) * rung_gap]
              /\ p2 = [phase |-> 1, i |-> (rung_pos - 1) * rung_gap]
              /\ (rung_pos - 1) * rung_gap <= NSeg
              /\ ~RungsDegenerate =>
                    /\ Shape0(rung_vs) = 16 /\ Shape0(rung_ns) = 16
                    /\ Shape0(rung_idx) = 48
        /\ pc \in {"combine", "done", "failed"} => rung_pos = CeilRungs
        /\ pc = "done" =>
              /\ Shape0(combined_vertices) = 2 * (NSeg + 1) * ring_sides + 16 * CeilRungs
              /\ Shape0(combined_normals) = Shape0(combined_vertices)
              /\ Len(combined_indices.rows) =
                    3 * (2 * NSeg * ring_sides * 2 + 16 * CeilRungs)

C8_Witness ==
    /\ pc = "done" /\ ValidParams /\ NSeg = 4 /\ rung_gap = 2 /\ rung_pos = 3
    /\ Shape0(combined_vertices) = 2 * 5 * ring_sides + 48

(* C9: the three indices of every triangle of the combined index array are
   pairwise distinct *)
C9_TriangleIndicesDistinct ==
    (pc = "done" /\ ValidParams) =>
        \A t \in 0..((Len(combined_indices.rows) \div 3) - 1) :
            LET a == combined_indices.rows[3 * t + 1]
                b == combined_indices.rows[3 * t + 2]
                c == combined_indices.rows[3 * t + 3]
            IN a # b /\ b # c /\ a # c

C9_Witness ==
    /\ pc = "done" /\ ValidParams /\ ring_sides = 3
    /\ Len(combined_indices.rows) > 2 * NSeg * ring_sides * 6

(* position in the rung's vertex array of the vertex placed at c + offset_j *)
RungVertexAt(c, j) ==
    CHOOSE n \in 0..(Shape0(rung_vs) - 1) :
        rung_vs.rows[n + 1].center = c /\ rung_vs.rows[n + 1].side = j

(* C10: side i of a rung is stitched as (a_i, a_i', b_i), (a_i', b_i', b_i)
   with a_j, b_j the positions of the p1-ring and p2-ring vertices of angle
   j, and the normal at each of these positions is the direction of angle j *)
C10_RungStitchedLikeStrand ==
    (pc = "shift" /\ ValidParams /\ ~BelowEps(p1, p2)) =>
        \A i \in 0..(RungSides - 1) :
            LET i_next == (i + 1) % RungSides
            IN /\ SubSeq(rung_idx.rows, 6 * i + 1, 6 * i + 6) =
                     << RungVertexAt(p1, i), RungVertexAt(p1, i_next), RungVertexAt(p2, i),
                        RungVertexAt(p1, i_next), RungVertexAt(p2, i_next), RungVertexAt(p2, i) >>
               /\ rung_ns.rows[RungVertexAt(p1, i) + 1].side = i
               /\ rung_ns.rows[RungVertexAt(p2, i) + 1].side = i

====
